---- MODULE Spec2Model ----
(***************************************************************************)
(* Model of src/main.py: the settlement-to-ERP converter.                  *)
(*                                                                         *)
(* Text is a sequence of Unicode code points (65 = "A", 97 = "a",          *)
(* 32 = " ", 46 = ".", 48 = "0", ...), so that normalisation, substring    *)
(* tests, trimming and lexicographic comparison are computed, not assumed. *)
(* A null cell (pandas NaN) is the one-element sequence NaN; no code point *)
(* is negative.                                                            *)
(*                                                                         *)
(* Numbers are counted in halves (the integer n stands for n/2): every     *)
(* such value and every tie x.5 is exact in binary floating point, so the  *)
(* float arithmetic of the source is exact on the modelled inputs.         *)
(***************************************************************************)
EXTENDS Integers, Sequences, FiniteSets, TLC

VARIABLES
    pc,                  \* position: which operation is next / has run
    amount_raw,          \* unit price: the amount (halves)
    qty,                 \* unit price: the quantity (halves)
    unit_price,          \* unit price: the computed price (whole number)
    raw,                 \* header detection: the raw grid (rows of cells)
    keyword_candidates,  \* header detection: the keyword list
    search_rows,         \* header detection: the search window
    header_idx,          \* header detection: the detected row (0-based)
    df_read,             \* header detection: the table read with that header
    df_columns,          \* column resolution: the table's column labels
    keywords,            \* column resolution: the keywords, in the order given
    found,               \* column resolution: the column, or the KeyError
    main_xlsx,           \* the rows of the selected order/settlement workbook
    map_sheet,           \* the rows of the mapping sheet at MAP_SHEET_URL
    main_path,           \* App.main_path ("" until a file is picked)
    status,              \* App.status, the status line
    dialog,              \* the last message box shown
    btn,                 \* the run button is enabled
    out_file,            \* the file at the chosen output path
    file_before,         \* out_file as it was when the current run began
    df_main, df_map,     \* build_result: the two tables read
    df,                  \* build_result: the joined table
    nums,                \* build_result: qty and amount_raw per row (halves)
    resolved,            \* build_result: fallback_mask, final_name, final_code
    prices,              \* build_result: unit_price per row
    grouped,             \* build_result: the buckets, in group-key order
    erp,                 \* build_result: the ERP table before the final sort
    result,              \* build_result: the table returned
    df_sorted,           \* save_result_with_style: the table sorted again
    book                 \* save_result_with_style: the workbook in memory

priceVars  == <<amount_raw, qty, unit_price>>
detectVars == <<raw, keyword_candidates, search_rows, header_idx, df_read>>
findVars   == <<df_columns, keywords, found>>
inputVars  == <<main_xlsx, map_sheet>>
guiVars    == <<main_path, status, dialog, btn>>
fileVars   == <<out_file, file_before>>
localVars  == <<df_main, df_map, df, nums, resolved, prices, grouped, erp,
                result, df_sorted, book>>
runVars    == <<inputVars, guiVars, fileVars, localVars>>
vars == <<pc, priceVars, detectVars, findVars, runVars>>

----------------------------------------------------------------------------
(* Bounds *)

MaxAmount == 310
MaxQty == 9
MaxGridRows == 3
MaxCols == 3
MaxMain == 2
MaxMap == 2

----------------------------------------------------------------------------
(* Text helpers *)

NaN == << -1 >>

\* str(x) of a cell: NaN prints as "nan"
Str(x) == IF x = NaN THEN <<110, 97, 110>> ELSE x

Abs(n) == IF n < 0 THEN -n ELSE n

\* numpy/pandas round(): nearest integer of n/d (d > 0), ties to the even one
RoundHalfEven(n, d) ==
    LET q == n \div d
        r == n % d
    IN  IF 2 * r < d THEN q
        ELSE IF 2 * r > d THEN q + 1
        ELSE IF q % 2 = 0 THEN q ELSE q + 1

\* characters removed by re.sub(r"\s+", "", s) and by str.strip()
WhiteSpace == {9, 10, 11, 12, 13, 32, 160, 12288}

\* str.lower() of one code point (the ASCII letters; Hangul has no case)
Lower(c) == IF c \in 65..90 THEN c + 32 ELSE c

LowerStr(s) == [i \in 1..Len(s) |-> Lower(s[i])]

RECURSIVE Remove(_, _)
Remove(s, drop) ==
    IF s = <<>> THEN <<>>
    ELSE IF Head(s) \in drop THEN Remove(Tail(s), drop)
    ELSE <<Head(s)>> \o Remove(Tail(s), drop)

\* _norm keeping the case: the zero-width and whitespace removal alone
NormKeepCase(s) == Remove(Str(s), {8203, 65279} \cup WhiteSpace)

\* _norm: zero-width space and BOM removed, all whitespace removed, lower case
Norm(s) == LowerStr(Remove(Str(s), {8203, 65279} \cup WhiteSpace))

\* Python's  needle in hay  on text
Contains(hay, needle) ==
    \E i \in 0..(Len(hay) - Len(needle)) :
        SubSeq(hay, i + 1, i + Len(needle)) = needle

----------------------------------------------------------------------------
(* _find_col *)

KeyError(kws, cols) == [ok |-> FALSE, keywords |-> kws, columns |-> cols]

ColMatches(c, kws) ==
    \E k \in 1..Len(kws) : Contains(Norm(c), Norm(kws[k]))

RECURSIVE FindColFrom(_, _, _)
FindColFrom(cols, kws, i) ==
    IF i > Len(cols) THEN KeyError(kws, cols)
    ELSE IF ColMatches(cols[i], kws) THEN [ok |-> TRUE, col |-> i]
    ELSE FindColFrom(cols, kws, i + 1)

\* the result names the column by its position; its label is cols[col]
FindCol(cols, kws) == FindColFrom(cols, kws, 1)

----------------------------------------------------------------------------
(* _read_with_header_detection: the header row index *)

Min(a, b) == IF a < b THEN a ELSE b

RowMatches(row, targets) ==
    \E t \in 1..Len(targets) : \E c \in 1..Len(row) :
        Contains(Norm(row[c]), targets[t])

RECURSIVE DetectFrom(_, _, _, _)
DetectFrom(grid, targets, i, limit) ==
    IF i >= limit THEN 0
    ELSE IF RowMatches(grid[i + 1], targets) THEN i
    ELSE DetectFrom(grid, targets, i + 1, limit)

\* the scan without its window: every row of the grid is searched
DetectHeaderNoWindow(grid, kws, window) ==
    LET targets == [k \in 1..Len(kws) |-> Norm(kws[k])]
    IN  DetectFrom(grid, targets, 0, Len(grid))

DetectHeader(grid, kws, window) ==
    LET targets == [k \in 1..Len(kws) |-> Norm(kws[k])]
    IN  DetectFrom(grid, targets, 0, Min(window, Len(grid)))

\* pd.read_excel(header=header_idx): the header row gives the labels, the
\* rows above it are dropped, the rows below it are the data (the renaming of
\* empty and repeated labels by pandas is left out)
ReadWithHeader(grid, idx) ==
    [columns |-> IF grid = <<>> THEN <<>> ELSE grid[idx + 1],
     rows |-> SubSeq(grid, idx + 2, Len(grid))]

----------------------------------------------------------------------------
(* build_result step 7: unit price of one row (amount, quantity in halves) *)

\* the signed threshold: quantity > 1 rather than |quantity| > 1
UnitPriceNoAbs(amount, quantity) ==
    IF quantity > 2
    THEN RoundHalfEven(Abs(amount), quantity)
    ELSE RoundHalfEven(Abs(amount), 2)

UnitPrice(amount, quantity) ==
    LET amount_abs == Abs(amount)
        qty_abs    == Abs(quantity)
        multi_mask == qty_abs > 2          \* qty_abs > 1
    IN  IF multi_mask
        THEN RoundHalfEven(amount_abs, qty_abs)   \* (a/2) / (q/2) = a / q
        ELSE RoundHalfEven(amount_abs, 2)

----------------------------------------------------------------------------
(* _to_number: the cell as text, every character but digits, "." and "-"     *)
(* removed, "" read as 0, the rest parsed by float().  The value is in      *)
(* halves.                                                                  *)

Digits == 48..57

RECURSIVE Keep(_, _)
Keep(s, keep) ==
    IF s = <<>> THEN <<>>
    ELSE IF Head(s) \in keep THEN <<Head(s)>> \o Keep(Tail(s), keep)
    ELSE Keep(Tail(s), keep)

RECURSIVE DigitsValue(_)
DigitsValue(s) ==
    IF s = <<>> THEN 0
    ELSE 10 * DigitsValue(SubSeq(s, 1, Len(s) - 1)) + (s[Len(s)] - 48)

\* the position of the first "." of s, or Len(s) + 1
RECURSIVE DotAt(_, _)
DotAt(s, i) ==
    IF i > Len(s) THEN i
    ELSE IF s[i] = 46 THEN i
    ELSE DotAt(s, i + 1)

\* a fraction's digits in halves: "", "0", "00" are 0 and "5", "50" are 1/2
\* (the modelled cells hold no other fraction)
FracHalves(f) ==
    LET nz == Remove(f, {48})
    IN  CASE nz = <<>> -> 0
          [] nz = <<53>> /\ f[1] = 53 -> 1

\* the cell as text with every character but digits, "." and "-" removed
Cleaned(cell) == Keep(Str(cell), Digits \cup {46, 45})

\* float() accepts the cleaned text: an optional leading "-", then digits
\* with at most one "." and at least one digit
Parses(t) ==
    LET u == IF t # <<>> /\ Head(t) = 45 THEN Tail(t) ELSE t
    IN  /\ Keep(u, Digits) # <<>>
        /\ Keep(u, {45}) = <<>>
        /\ Len(Keep(u, {46})) <= 1

FloatOf(t) ==
    LET neg == Head(t) = 45
        u == IF neg THEN Tail(t) ELSE t
        d == DotAt(u, 1)
        v == 2 * DigitsValue(SubSeq(u, 1, d - 1)) + FracHalves(SubSeq(u, d + 1, Len(u)))
    IN  IF neg THEN -v ELSE v

\* _to_number of one cell raises ValueError
NumberFails(cell) == Cleaned(cell) # <<>> /\ ~Parses(Cleaned(cell))

\* _to_number of one cell that parses
ToNumber(cell) == IF Cleaned(cell) = <<>> THEN 0 ELSE FloatOf(Cleaned(cell))

----------------------------------------------------------------------------
(* build_result step 4: the left join on the normalized option identifier   *)

Joined(m, code, name) ==
    [optid |-> m.optid, date |-> m.date, qty |-> m.qty, amount |-> m.amount,
     regnm |-> m.regnm, code |-> code, name |-> name]

OptKey(row) == Norm(Str(row.optid))

RECURSIVE MatchesOf(_, _, _)
MatchesOf(m, map, j) ==
    IF j > Len(map) THEN <<>>
    ELSE IF OptKey(map[j]) = OptKey(m)
    THEN <<Joined(m, map[j].code, map[j].name)>> \o MatchesOf(m, map, j + 1)
    ELSE MatchesOf(m, map, j + 1)

\* pd.merge(how="left"): one row per matching mapping row, in mapping order
MergeRow(m, map) ==
    LET ms == MatchesOf(m, map, 1)
    IN  IF ms = <<>> THEN <<Joined(m, NaN, NaN)>> ELSE ms

RECURSIVE Merge(_, _)
Merge(main, map) ==
    IF main = <<>> THEN <<>>
    ELSE MergeRow(Head(main), map) \o Merge(Tail(main), map)

----------------------------------------------------------------------------
(* build_result step 6: name and code, the fallback mask                    *)

RECURSIVE LStrip(_)
LStrip(s) ==
    IF s = <<>> THEN <<>>
    ELSE IF Head(s) \in WhiteSpace THEN LStrip(Tail(s)) ELSE s

RECURSIVE RStrip(_)
RStrip(s) ==
    IF s = <<>> THEN <<>>
    ELSE IF s[Len(s)] \in WhiteSpace THEN RStrip(SubSeq(s, 1, Len(s) - 1)) ELSE s

Strip(s) == RStrip(LStrip(s))

\* the mask without the blank-name test: unmatched rows only
FallbackMaskNullOnly(r) == r.name = NaN

FallbackMask(r) == r.name = NaN \/ Strip(Str(r.name)) = <<>>

Resolve(r) ==
    LET fallback_mask == FallbackMask(r)
    IN  [fallback_mask |-> fallback_mask,
         final_name |-> IF fallback_mask THEN r.regnm ELSE r.name,
         final_code |-> IF fallback_mask THEN Str(r.optid) ELSE r.code]

----------------------------------------------------------------------------
(* build_result steps 8 and 9: the intermediate table and the grouping      *)

Partner == <<53216, 54049, 45, 51228, 53944, 48176, 49569>>   \* "쿠팡-제트배송"

MidRow(r, n, f, p) ==
    [date |-> r.date, partner |-> Partner, code |-> Str(f.final_code),
     name |-> f.final_name, qty |-> n.qty, price |-> p, remark |-> <<>>,
     fallback |-> f.fallback_mask, neg |-> n.qty < 0]

\* Python's  a < b  on text: lexicographic by code point
RECURSIVE StrLess(_, _)
StrLess(a, b) ==
    IF b = <<>> THEN FALSE
    ELSE IF a = <<>> THEN TRUE
    ELSE IF Head(a) # Head(b) THEN Head(a) < Head(b)
    ELSE StrLess(Tail(a), Tail(b))

GroupKey(m) == <<m.code, m.price, m.neg>>

\* the order of the group keys: code, then price, then False before True
KeyLess(k, l) ==
    \/ StrLess(k[1], l[1])
    \/ k[1] = l[1] /\ k[2] < l[2]
    \/ k[1] = l[1] /\ k[2] = l[2] /\ ~k[3] /\ l[3]

RECURSIVE SumQty(_)
SumQty(rows) == IF rows = <<>> THEN 0 ELSE Head(rows).qty + SumQty(Tail(rows))

\* agg "first": the first value of the group that is not null
RECURSIVE FirstValid(_)
FirstValid(vals) ==
    IF vals = <<>> THEN NaN
    ELSE IF Head(vals) # NaN THEN Head(vals)
    ELSE FirstValid(Tail(vals))

RECURSIVE Members(_, _)
Members(mid, key) ==
    IF mid = <<>> THEN <<>>
    ELSE IF GroupKey(Head(mid)) = key
    THEN <<Head(mid)>> \o Members(Tail(mid), key)
    ELSE Members(Tail(mid), key)

\* the bucket whose quantity is its first member's, not the sum
BucketQtyFirst(mid, key) ==
    LET ms == Members(mid, key)
    IN  [code |-> key[1], price |-> key[2], neg |-> key[3],
         qty_sum |-> Head(ms).qty,
         name_first |-> FirstValid([i \in 1..Len(ms) |-> ms[i].name]),
         date_first |-> FirstValid([i \in 1..Len(ms) |-> ms[i].date]),
         partner_first |-> Partner,
         remark_first |-> <<>>,
         fb_any |-> \E i \in 1..Len(ms) : ms[i].fallback]

Bucket(mid, key) ==
    LET ms == Members(mid, key)
    IN  [code |-> key[1], price |-> key[2], neg |-> key[3],
         qty_sum |-> SumQty(ms),
         name_first |-> FirstValid([i \in 1..Len(ms) |-> ms[i].name]),
         date_first |-> FirstValid([i \in 1..Len(ms) |-> ms[i].date]),
         partner_first |-> Partner,
         remark_first |-> <<>>,
         fb_any |-> \E i \in 1..Len(ms) : ms[i].fallback]

\* the keys of a set in ascending order
RECURSIVE SortKeys(_)
SortKeys(ks) ==
    IF ks = {} THEN <<>>
    ELSE LET least == CHOOSE k \in ks : \A l \in ks : l = k \/ KeyLess(k, l)
         IN  <<least>> \o SortKeys(ks \ {least})

\* groupby([code, price, neg], dropna=False).agg(...).reset_index()
GroupBy(mid) ==
    LET ks == SortKeys({GroupKey(mid[i]) : i \in 1..Len(mid)})
    IN  [g \in 1..Len(ks) |-> Bucket(mid, ks[g])]

----------------------------------------------------------------------------
(* build_result step 10 and the final sort                                  *)

\* str.replace(r"\.0$", "", regex=True)
StripDotZero(code) ==
    IF Len(code) >= 2 /\ SubSeq(code, Len(code) - 1, Len(code)) = <<46, 48>>
    THEN SubSeq(code, 1, Len(code) - 2)
    ELSE code

\* one row of the ERP table (its always-blank columns are left out)
ResultRow(g) ==
    [date |-> g.date_first, partner |-> g.partner_first,
     code |-> StripDotZero(Str(g.code)), name |-> g.name_first,
     qty |-> RoundHalfEven(g.qty_sum, 2), price |-> g.price,
     remark |-> g.remark_first, fallback |-> g.fb_any]

\* _name_sort_key of one row
NameSortKey(row) == LowerStr(Str(row.name))

StrLeq(a, b) == a = b \/ StrLess(a, b)

\* the orderings of the rows with indices in S that are ascending by the key:
\* any row with the least key may come first
RECURSIVE Ascending(_, _)
Ascending(rows, S) ==
    IF S = {} THEN {<<>>}
    ELSE UNION { { <<rows[i]>> \o t : t \in Ascending(rows, S \ {i}) } :
                 i \in { m \in S : \A j \in S :
                           StrLeq(NameSortKey(rows[m]), NameSortKey(rows[j])) } }

\* sort_values(by=name, key=_name_sort_key) with the default kind="quicksort":
\* every ordering of the rows that is ascending by the key is an outcome;
\* which of two rows with equal keys comes first is not determined
SortValues(rows) == Ascending(rows, 1..Len(rows))

----------------------------------------------------------------------------
(* Specification of the unit-price rule on its own *)

PriceIdle  == amount_raw = 0 /\ qty = 0 /\ unit_price = 0
NoTable    == [columns |-> <<>>, rows |-> <<>>]
DetectIdle == raw = <<>> /\ keyword_candidates = <<>> /\ search_rows = 0
              /\ header_idx = 0 /\ df_read = NoTable
FindIdle   == df_columns = <<>> /\ keywords = <<>> /\ found = <<>>
NoLocals   == /\ df_main = <<>> /\ df_map = <<>> /\ df = <<>> /\ nums = <<>>
              /\ resolved = <<>> /\ prices = <<>> /\ grouped = <<>> /\ erp = <<>>
              /\ result = <<>> /\ df_sorted = <<>> /\ book = [rows |-> <<>>, red |-> <<>>]
NoDialog   == [kind |-> "none", text |-> ""]
OldFile    == [state |-> "old"]
RunIdle    == /\ main_xlsx = <<>> /\ map_sheet = <<>> /\ main_path = ""
              /\ status = "ready" /\ dialog = NoDialog /\ btn = TRUE
              /\ out_file = OldFile /\ file_before = OldFile /\ NoLocals

InitPrice ==
    /\ pc = "price_in"
    /\ amount_raw \in -MaxAmount..MaxAmount
    /\ qty \in -MaxQty..MaxQty
    /\ unit_price = 0
    /\ DetectIdle /\ FindIdle /\ RunIdle

PriceStep ==
    /\ pc = "price_in"
    /\ unit_price' = UnitPrice(amount_raw, qty)
    /\ pc' = "price_out"
    /\ UNCHANGED <<amount_raw, qty, detectVars, findVars, runVars>>

NextPrice == PriceStep

SpecPrice == InitPrice /\ [][NextPrice]_vars

----------------------------------------------------------------------------
(* Specification of header detection on its own *)

SeqsUpTo(S, n) == UNION {[1..k -> S] : k \in 0..n}

\* cells of a raw grid: "Option ID", "판매 수량(B)", an empty cell
GridCells == { <<79, 112, 116, 105, 111, 110, 32, 73, 68>>,
               <<54032, 47588, 32, 49688, 47049, 40, 66, 41>>,
               NaN }

GridRows == [1..2 -> GridCells]

\* ("옵션id", "optionid"), ("수량"), ("정산 대상액"), ("an")
DetectKeywordLists ==
    { << <<50741, 49496, 105, 100>>, <<111, 112, 116, 105, 111, 110, 105, 100>> >>,
      << <<49688, 47049>> >>,
      << <<51221, 49328, 32, 45824, 49345, 50529>> >>,
      << <<97, 110>> >> }

InitDetect ==
    /\ pc = "detect_in"
    /\ raw \in SeqsUpTo(GridRows, MaxGridRows)
    /\ keyword_candidates \in DetectKeywordLists
    /\ search_rows \in 1..MaxGridRows
    /\ header_idx = 0
    /\ df_read = NoTable
    /\ PriceIdle /\ FindIdle /\ RunIdle

DetectStep ==
    /\ pc = "detect_in"
    /\ header_idx' = DetectHeader(raw, keyword_candidates, search_rows)
    /\ df_read' = ReadWithHeader(raw, header_idx')
    /\ pc' = "detect_out"
    /\ UNCHANGED <<raw, keyword_candidates, search_rows, priceVars, findVars, runVars>>

NextDetect == DetectStep

SpecDetect == InitDetect /\ [][NextDetect]_vars

----------------------------------------------------------------------------
(* Specification of column resolution on its own *)

\* "옵션ID", "Option ID", "판매 수량(B)", "반품수량", "메모"
Labels == { <<50741, 49496, 73, 68>>,
            <<79, 112, 116, 105, 111, 110, 32, 73, 68>>,
            <<54032, 47588, 32, 49688, 47049, 40, 66, 41>>,
            <<48152, 54408, 49688, 47049>>,
            <<47700, 47784>> }

\* the keyword tuples of lines 107, 109, 110 and 111
FindKeywordLists ==
    { << <<50741, 49496, 105, 100>>, <<111, 112, 116, 105, 111, 110, 105, 100>> >>,
      << <<54032, 47588, 49688, 47049>>, <<49688, 47049>> >>,
      << <<51221, 49328, 45824, 49345, 50529>>,
         <<51221, 49328, 32, 45824, 49345, 50529>> >>,
      << <<46321, 47197, 49345, 54408, 47749>> >> }

InitFind ==
    /\ pc = "find_in"
    /\ df_columns \in SeqsUpTo(Labels, MaxCols)
    /\ keywords \in FindKeywordLists
    /\ found = <<>>
    /\ PriceIdle /\ DetectIdle /\ RunIdle

FindStep ==
    /\ pc = "find_in"
    /\ found' = FindCol(df_columns, keywords)
    /\ pc' = "find_out"
    /\ UNCHANGED <<df_columns, keywords, priceVars, detectVars, runVars>>

NextFind == FindStep

SpecFind == InitFind /\ [][NextFind]_vars

----------------------------------------------------------------------------
(* save_result_with_style: what the workbook writer does with the rows      *)

\* the characters openpyxl refuses in a cell (IllegalCharacterError)
IllegalChars == (0..8) \cup {11, 12} \cup (14..31)

IllegalText(t) == \E i \in 1..Len(t) : t[i] \in IllegalChars

IllegalRow(r) == IllegalText(r.date) \/ IllegalText(r.code) \/ IllegalText(r.name)

\* df_sorted.drop(columns="__fallback")
ToSave(r) ==
    [date |-> r.date, partner |-> r.partner, code |-> r.code, name |-> r.name,
     qty |-> r.qty, price |-> r.price, remark |-> r.remark]

EmptyBook == [rows |-> <<>>, red |-> <<>>]

----------------------------------------------------------------------------
(* Specification of the application: pick a file, run the conversion once   *)
(* (pc = "done" once App.run has returned)                                  *)

Text_A1 == <<65, 49>>
Text_A2 == <<65, 50>>
Text_Widget == <<87, 105, 100, 103, 101, 116>>
Text_Gadget == <<71, 97, 100, 103, 101, 116>>
Text_C1 == <<67, 49>>
Text_WinWidget == <<87, 105, 110, 32, 87, 105, 100, 103, 101, 116>>

\* rows of the order/settlement workbook: option id, date, quantity,
\* settlement amount, registered name
MainRows ==
    { [optid |-> Text_A1, date |-> <<48, 49, 48, 49>>, qty |-> <<51>>,
       amount |-> <<45, 51, 48, 48>>, regnm |-> Text_Widget],          \* "A1", 3, -300
      [optid |-> Text_A2, date |-> <<48, 49, 48, 50>>, qty |-> <<49>>,
       amount |-> <<53, 48>>, regnm |-> Text_Gadget],                  \* "A2", 1, 50
      [optid |-> <<49, 50, 51>>, date |-> <<48, 49, 48, 49>>, qty |-> <<51>>,
       amount |-> <<51, 48, 48>>, regnm |-> <<87, 11>>],               \* "123", 3, 300, "W\v"
      [optid |-> <<32, 97, 49>>, date |-> <<48, 49, 48, 50>>, qty |-> <<45, 51>>,
       amount |-> <<45, 51, 48, 48>>, regnm |-> NaN],                  \* " a1", -3, -300
      [optid |-> Text_A2, date |-> <<48, 49, 48, 49>>, qty |-> <<45>>,
       amount |-> <<53, 48>>, regnm |-> Text_Gadget] }                 \* "A2", "-", 50

\* rows of the mapping sheet: option id, code, win-win product name
MapRows ==
    { [optid |-> <<97, 49>>, code |-> Text_C1, name |-> Text_WinWidget],     \* "a1"
      [optid |-> <<65, 49, 32>>, code |-> <<49, 50, 51, 46, 48>>,
       name |-> <<119, 105, 110, 32, 119, 105, 100, 103, 101, 116>>],        \* "A1 ", "123.0", "win widget"
      [optid |-> Text_A2, code |-> <<67, 50>>, name |-> <<32, 32>>],         \* "A2", "C2", "  "
      [optid |-> <<49, 50, 51>>, code |-> NaN, name |-> Text_Gadget] }       \* "123", null, "Gadget"

Init ==
    /\ pc = "idle"
    /\ main_xlsx \in SeqsUpTo(MainRows, MaxMain)
    /\ map_sheet \in SeqsUpTo(MapRows, MaxMap)
    /\ main_path = ""
    /\ status = "ready"              \* "준비됨"
    /\ dialog = NoDialog
    /\ btn = TRUE
    /\ out_file = OldFile
    /\ file_before = OldFile
    /\ NoLocals
    /\ PriceIdle /\ DetectIdle /\ FindIdle

others == <<priceVars, detectVars, findVars, inputVars>>

\* the locals of build_result and save_result_with_style are gone on return
Cleared ==
    /\ df_main' = <<>> /\ df_map' = <<>> /\ df' = <<>> /\ nums' = <<>>
    /\ resolved' = <<>> /\ prices' = <<>> /\ grouped' = <<>> /\ erp' = <<>>
    /\ result' = <<>> /\ df_sorted' = <<>> /\ book' = EmptyBook

\* App.run, except/finally: the status line, the error box, the button
Fail(e) ==
    /\ status' = "failed"            \* "실패"
    /\ dialog' = [kind |-> "error", text |-> e]
    /\ btn' = TRUE
    /\ pc' = "done"
    /\ Cleared
    /\ UNCHANGED <<main_path, file_before, others>>

\* App.pick_main with a file chosen
PickMain ==
    /\ pc = "idle"
    /\ main_path' = "main.xlsx"
    /\ status' = "picked"            \* "1) 엑셀 선택 완료"
    /\ UNCHANGED <<pc, dialog, btn, fileVars, localVars, others>>

\* App.run with no file picked: the warning, and nothing else
RunNoFile ==
    /\ pc = "idle"
    /\ main_path = ""
    /\ dialog' = [kind |-> "warning", text |-> "pick the workbook first"]
    /\ UNCHANGED <<pc, main_path, status, btn, fileVars, localVars, others>>

\* App.run with the save dialog cancelled
RunCancel ==
    /\ pc = "idle"
    /\ main_path # ""
    /\ UNCHANGED vars

\* App.run up to the call of build_result
RunStart ==
    /\ pc = "idle"
    /\ main_path # ""
    /\ btn' = FALSE
    /\ status' = "converting"        \* "변환 중…"
    /\ file_before' = out_file
    /\ pc' = "read"
    /\ UNCHANGED <<main_path, dialog, out_file, localVars, others>>

\* build_result steps 1 to 3: both tables read, their columns resolved; a
\* failed read or an unresolved column raises
ReadTables ==
    /\ pc = "read"
    /\ \/ /\ df_main' = main_xlsx
          /\ df_map' = map_sheet
          /\ pc' = "join"
          /\ UNCHANGED <<guiVars, fileVars, others, df, nums, resolved, prices,
                         grouped, erp, result, df_sorted, book>>
       \/ /\ Fail("read")
          /\ UNCHANGED out_file

JoinTables ==
    /\ pc = "join"
    /\ df' = Merge(df_main, df_map)
    /\ pc' = "numbers"
    /\ UNCHANGED <<guiVars, fileVars, others, df_main, df_map, nums, resolved,
                   prices, grouped, erp, result, df_sorted, book>>

ToNumbers ==
    /\ pc = "numbers"
    /\ IF \E i \in 1..Len(df) : NumberFails(df[i].qty) \/ NumberFails(df[i].amount)
       THEN /\ Fail("ValueError")
            /\ UNCHANGED out_file
       ELSE /\ nums' = [i \in 1..Len(df) |->
                          [qty |-> ToNumber(df[i].qty),
                           amount_raw |-> ToNumber(df[i].amount)]]
            /\ pc' = "fallback"
            /\ UNCHANGED <<guiVars, fileVars, others, df_main, df_map, df,
                           resolved, prices, grouped, erp, result, df_sorted, book>>

ResolveNames ==
    /\ pc = "fallback"
    /\ resolved' = [i \in 1..Len(df) |-> Resolve(df[i])]
    /\ pc' = "price"
    /\ UNCHANGED <<guiVars, fileVars, others, df_main, df_map, df, nums,
                   prices, grouped, erp, result, df_sorted, book>>

ComputePrices ==
    /\ pc = "price"
    /\ prices' = [i \in 1..Len(df) |-> UnitPrice(nums[i].amount_raw, nums[i].qty)]
    /\ pc' = "group"
    /\ UNCHANGED <<guiVars, fileVars, others, df_main, df_map, df, nums,
                   resolved, grouped, erp, result, df_sorted, book>>

\* the intermediate table of step 8
Mid == [i \in 1..Len(df) |-> MidRow(df[i], nums[i], resolved[i], prices[i])]

GroupRows ==
    /\ pc = "group"
    /\ grouped' = GroupBy(Mid)
    /\ pc' = "format"
    /\ UNCHANGED <<guiVars, fileVars, others, df_main, df_map, df, nums,
                   resolved, prices, erp, result, df_sorted, book>>

FormatRows ==
    /\ pc = "format"
    /\ erp' = [g \in 1..Len(grouped) |-> ResultRow(grouped[g])]
    /\ pc' = "sort"
    /\ UNCHANGED <<guiVars, fileVars, others, df_main, df_map, df, nums,
                   resolved, prices, grouped, result, df_sorted, book>>

\* the final sort and the return: the other locals of build_result are gone
SortResult ==
    /\ pc = "sort"
    /\ result' \in SortValues(erp)
    /\ pc' = "save_sort"
    /\ df_main' = <<>> /\ df_map' = <<>> /\ df' = <<>> /\ nums' = <<>>
    /\ resolved' = <<>> /\ prices' = <<>> /\ grouped' = <<>> /\ erp' = <<>>
    /\ UNCHANGED <<guiVars, fileVars, others, df_sorted, book>>

\* save_result_with_style, the second sort; the table passed in is not read
\* again, by save_result_with_style or by App.run
SaveSort ==
    /\ pc = "save_sort"
    /\ df_sorted' \in SortValues(result)
    /\ result' = <<>>
    /\ pc' = "open"
    /\ UNCHANGED <<guiVars, fileVars, others, df_main, df_map, df, nums,
                   resolved, prices, grouped, erp, book>>

\* pd.ExcelWriter(out_path): the file is opened for writing, which empties
\* it; the open may be refused (the file is open elsewhere, no permission)
OpenWriter ==
    /\ pc = "open"
    /\ \/ /\ out_file' = [state |-> "truncated"]
          /\ book' = EmptyBook
          /\ pc' = "write"
          /\ UNCHANGED <<guiVars, file_before, others, df_main, df_map, df, nums,
                         resolved, prices, grouped, erp, result, df_sorted>>
       \/ /\ Fail("PermissionError")
          /\ UNCHANGED out_file

\* to_excel: a cell openpyxl refuses raises inside the with block, and the
\* writer's __exit__ still saves the workbook as far as it was filled
WriteSheet ==
    /\ pc = "write"
    /\ IF \E i \in 1..Len(df_sorted) : IllegalRow(df_sorted[i])
       THEN /\ out_file' = [state |-> "partial"]
            /\ Fail("IllegalCharacterError")
       ELSE /\ book' = [rows |-> [i \in 1..Len(df_sorted) |-> ToSave(df_sorted[i])],
                        red |-> [i \in 1..Len(df_sorted) |-> FALSE]]
            /\ pc' = "style"
            /\ UNCHANGED <<guiVars, fileVars, others, df_main, df_map, df, nums,
                           resolved, prices, grouped, erp, result, df_sorted>>

\* the name cell of every fallback row in red
StyleCells ==
    /\ pc = "style"
    /\ book' = [book EXCEPT !.red = [i \in 1..Len(df_sorted) |-> df_sorted[i].fallback]]
    /\ pc' = "close"
    /\ UNCHANGED <<guiVars, fileVars, others, df_main, df_map, df, nums,
                   resolved, prices, grouped, erp, result, df_sorted>>

\* the end of the with block: the workbook is saved
CloseWriter ==
    /\ pc = "close"
    /\ out_file' = [state |-> "saved", rows |-> book.rows, red |-> book.red]
    /\ pc' = "finish"
    /\ UNCHANGED <<guiVars, file_before, others, localVars>>

\* App.run after the save: the status line, the info box, the button
Finish ==
    /\ pc = "finish"
    /\ status' = "saved"             \* "완료: ... 저장됨"
    /\ dialog' = [kind |-> "info", text |-> "saved"]
    /\ btn' = TRUE
    /\ pc' = "done"
    /\ Cleared
    /\ UNCHANGED <<main_path, fileVars, others>>

Next ==
    \/ PickMain \/ RunNoFile \/ RunCancel \/ RunStart
    \/ ReadTables \/ JoinTables \/ ToNumbers \/ ResolveNames \/ ComputePrices
    \/ GroupRows \/ FormatRows \/ SortResult
    \/ SaveSort \/ OpenWriter \/ WriteSheet \/ StyleCells \/ CloseWriter
    \/ Finish

Spec == Init /\ [][Next]_vars

----------------------------------------------------------------------------
(* Properties *)

\* p is the integer nearest to n/d (n >= 0, d > 0), a tie going to the even one
IsNearestEven(p, n, d) ==
    /\ 2 * Abs(p * d - n) <= d
    /\ (2 * Abs(p * d - n) = d => p % 2 = 0)

\* C1: the unit price is round(|amount| / |quantity|) when |quantity| > 1 and
\* round(|amount|) otherwise (quantity 0 included), ties to even; it is a
\* non-negative integer and does not depend on the sign of the quantity;
\* price(100, 1) = 100, price(-150, 3) = 50, price(7, 0) = 7.
C1_UnitPriceRule ==
    pc = "price_out" =>
        /\ unit_price \in Nat
        /\ IF Abs(qty) > 2
           THEN IsNearestEven(unit_price, Abs(amount_raw), Abs(qty))
           ELSE IsNearestEven(unit_price, Abs(amount_raw), 2)
        /\ unit_price = UnitPrice(amount_raw, -qty)
        /\ (amount_raw = 200 /\ qty = 2 => unit_price = 100)
        /\ (amount_raw = -300 /\ qty = 6 => unit_price = 50)
        /\ (amount_raw = 14 /\ qty = 0 => unit_price = 7)

\* a negative quantity below -1 whose quotient is a tie: -7.5 / -3 = 2.5 -> 2
C1_Witness ==
    /\ pc = "price_out"
    /\ amount_raw = -15 /\ qty = -6
    /\ unit_price = 2

\* row i (0-based) of the raw grid has a cell whose normalized text contains a
\* normalized keyword
RowHits(i) ==
    \E c \in 1..Len(raw[i + 1]) : \E k \in 1..Len(keyword_candidates) :
        Contains(Norm(raw[i + 1][c]), Norm(keyword_candidates[k]))

\* C5: the detected header index is the first row within
\* min(search_rows, number of rows) that has a matching cell, 0 when no row
\* of the window has one, and always 0 <= index < search_rows.
C5_HeaderDetection ==
    pc = "detect_out" =>
        LET limit == Min(search_rows, Len(raw))
        IN  /\ \A k \in 0..(limit - 1) :
                   (RowHits(k) /\ \A j \in 0..(k - 1) : ~RowHits(j))
                       => header_idx = k
            /\ ((\A k \in 0..(limit - 1) : ~RowHits(k)) => header_idx = 0)
            /\ 0 <= header_idx /\ header_idx < search_rows

\* the header is found on a later row, and the grid is longer than the window
C5_Witness ==
    /\ pc = "detect_out"
    /\ header_idx >= 1
    /\ Len(raw) > search_rows
    /\ RowHits(header_idx) /\ ~RowHits(0)

ColHas(i, k) == Contains(Norm(df_columns[i]), Norm(keywords[k]))

\* C6: the keywords are tried in the order given: the result is the first
\* column containing the earliest keyword that any column contains, even if
\* an earlier column contains only a later keyword; with no match at all the
\* resolution fails with an error naming the keywords and the columns.
C6_KeywordOrder ==
    pc = "find_out" =>
        /\ \A k \in 1..Len(keywords) : \A i \in 1..Len(df_columns) :
               ( /\ ColHas(i, k)
                 /\ \A j \in 1..(i - 1) : ~ColHas(j, k)
                 /\ \A e \in 1..(k - 1) : \A j \in 1..Len(df_columns) : ~ColHas(j, e) )
               => found = [ok |-> TRUE, col |-> i]
        /\ ((\A k \in 1..Len(keywords) : \A i \in 1..Len(df_columns) : ~ColHas(i, k))
               => found = KeyError(keywords, df_columns))

\* the stages of build_result at which each of its locals holds its value
HasDf       == pc \in {"numbers", "fallback", "price", "group", "format", "sort"}
HasResolved == pc \in {"price", "group", "format", "sort"}
HasPrices   == pc \in {"group", "format", "sort"}
HasGrouped  == pc \in {"format", "sort"}

\* a text of whitespace only (the empty text included)
IsBlank(t) == \A k \in 1..Len(t) : t[k] \in WhiteSpace

\* C2: a joined record is flagged as fallback iff its mapped name is null or
\* blank after trimming; a flagged record gets the stringified raw option
\* identifier as code and the registered name as name, an unflagged one gets
\* code and name from a mapping row with its normalized identifier.
C2_FallbackPolicy ==
    /\ HasResolved =>
         \A i \in 1..Len(df) :
            LET flagged == df[i].name = NaN \/ IsBlank(Str(df[i].name))
            IN  /\ resolved[i].fallback_mask <=> flagged
                /\ flagged => /\ resolved[i].final_code = Str(df[i].optid)
                              /\ resolved[i].final_name = df[i].regnm
                /\ ~flagged => \E j \in 1..Len(df_map) :
                                  /\ OptKey(df_map[j]) = OptKey(df[i])
                                  /\ resolved[i].final_code = df_map[j].code
                                  /\ resolved[i].final_name = df_map[j].name
    /\ HasPrices =>
         \A i \in 1..Len(df) :
            /\ Mid[i].fallback <=> (df[i].name = NaN \/ IsBlank(Str(df[i].name)))
            /\ Mid[i].fallback => Mid[i].code = Str(df[i].optid)
                                  /\ Mid[i].name = df[i].regnm

\* a record flagged for a blank (not null) mapped name beside an unflagged one
C2_Witness ==
    /\ HasResolved
    /\ \E i \in 1..Len(df) :
          df[i].name # NaN /\ df[i].name # <<>> /\ resolved[i].fallback_mask
    /\ \E i \in 1..Len(df) : ~resolved[i].fallback_mask

RECURSIVE SumQtyOver(_, _)
SumQtyOver(rows, S) ==
    IF S = {} THEN 0
    ELSE LET i == CHOOSE x \in S : TRUE
         IN  rows[i].qty + SumQtyOver(rows, S \ {i})

RECURSIVE SumBuckets(_)
SumBuckets(S) ==
    IF S = {} THEN 0
    ELSE LET g == CHOOSE x \in S : TRUE
         IN  grouped[g].qty_sum + SumBuckets(S \ {g})

BucketKey(b) == <<b.code, b.price, b.neg>>

\* the priced records with the grouping key k
RecordsOf(k) == {i \in 1..Len(df) : <<Mid[i].code, Mid[i].price, Mid[i].neg>> = k}

\* C3: every bucket's quantity is the sum of the quantities of the priced
\* records with its key, every priced record has exactly one bucket, and the
\* totals over all buckets and over all priced records are equal.
C3_AggregationSum ==
    HasGrouped =>
        /\ \A g \in 1..Len(grouped) :
              /\ RecordsOf(BucketKey(grouped[g])) # {}
              /\ grouped[g].qty_sum = SumQtyOver(Mid, RecordsOf(BucketKey(grouped[g])))
        /\ \A i \in 1..Len(df) :
              Cardinality({g \in 1..Len(grouped) :
                             BucketKey(grouped[g]) = <<Mid[i].code, Mid[i].price, Mid[i].neg>>}) = 1
        /\ SumBuckets(1..Len(grouped)) = SumQtyOver(Mid, 1..Len(df))

\* a bucket of two records beside a bucket whose code is null
C3_Witness ==
    /\ HasGrouped
    /\ \E g \in 1..Len(grouped) :
          Cardinality(RecordsOf(BucketKey(grouped[g]))) >= 2 /\ grouped[g].qty_sum # 0
    /\ \E i \in 1..Len(df) : resolved[i].final_code = NaN

\* the join as if the mapping were deduplicated on its key: the first match
FirstMatch(m, map) ==
    LET ms == MatchesOf(m, map, 1)
    IN  IF ms = <<>> THEN Joined(m, NaN, NaN) ELSE Head(ms)

\* C4: the left join yields exactly one joined record per main row; a main
\* row matching several mapping rows is joined to the first of them only; an
\* unmatched main row carries null code and name.
C4_JoinCardinality ==
    HasDf =>
        /\ Len(df) = Len(df_main)
        /\ \A i \in 1..Len(df_main) : df[i] = FirstMatch(df_main[i], df_map)

\* the ordering of the rows with indices in S that is ascending by the key
\* and keeps rows with equal keys in their order
RECURSIVE StableAscending(_, _)
StableAscending(rows, S) ==
    IF S = {} THEN <<>>
    ELSE LET i == CHOOSE m \in S : \A j \in S :
                     \/ StrLess(NameSortKey(rows[m]), NameSortKey(rows[j]))
                     \/ NameSortKey(rows[m]) = NameSortKey(rows[j]) /\ m <= j
         IN  <<rows[i]>> \o StableAscending(rows, S \ {i})

\* C7: the table returned by build_result is the aggregated table sorted by
\* lower-cased name with rows of equal keys in their order before the sort,
\* and so is the table sorted again when the result is saved.
C7_StableSort ==
    [][ /\ pc = "sort" => result' = StableAscending(erp, 1..Len(erp))
        /\ pc = "save_sort" => df_sorted' = StableAscending(result, 1..Len(result))
      ]_vars

\* the main table and the mapping table of the end-to-end scenario
Scenario ==
    /\ Len(main_xlsx) = 2
    /\ main_xlsx[1].optid = Text_A1 /\ main_xlsx[1].regnm = Text_Widget
    /\ ToNumber(main_xlsx[1].amount) = -600 /\ ToNumber(main_xlsx[1].qty) = 6
    /\ main_xlsx[2].optid = Text_A2 /\ main_xlsx[2].regnm = Text_Gadget
    /\ ToNumber(main_xlsx[2].amount) = 100 /\ ToNumber(main_xlsx[2].qty) = 2
    /\ Len(map_sheet) = 1
    /\ Norm(map_sheet[1].optid) = <<97, 49>>
    /\ map_sheet[1].code = Text_C1 /\ map_sheet[1].name = Text_WinWidget

Shown(r) == [code |-> r.code, name |-> r.name, qty |-> r.qty, price |-> r.price,
             fallback |-> r.fallback]

\* C8: in the end-to-end scenario the result has exactly the rows
\* ("A2", "Gadget", 1, 50, fallback) and ("C1", "Win Widget", 3, 100, not
\* fallback), in this order.
C8_EndToEnd ==
    (pc = "save_sort" /\ Scenario) =>
        /\ Len(result) = 2
        /\ Shown(result[1]) = [code |-> Text_A2, name |-> Text_Gadget, qty |-> 1,
                               price |-> 50, fallback |-> TRUE]
        /\ Shown(result[2]) = [code |-> Text_C1, name |-> Text_WinWidget, qty |-> 3,
                               price |-> 100, fallback |-> FALSE]

C8_Witness == pc = "save_sort" /\ Scenario /\ Len(result) = 2

\* C9: a run in which a stage raised has ended (no later stage runs) in the
\* failed state with the error shown, has written no result, complete or
\* partial, and has left the output file as it was before the run.
C9_FailureLeavesOutput ==
    status = "failed" =>
        /\ pc = "done"
        /\ dialog.kind = "error"
        /\ btn
        /\ out_file = file_before

\* C10: no two rows of the result have the same shown code, unit price and
\* quantity sign.
C10_OneRowPerKey ==
    pc = "save_sort" =>
        \A i, j \in 1..Len(result) :
            i # j => <<result[i].code, result[i].price, result[i].qty < 0>>
                     # <<result[j].code, result[j].price, result[j].qty < 0>>

====
